---- MODULE Spec2Model ----
(***************************************************************************)
(* Model of the job-dispatch worker pool of src/smhi/multiprocessing.py:   *)
(* BaseManager.run (create_jobs, start_workers, the progress wait loop,    *)
(* stop_workers) and BaseWorker.run (get_engine, the get / process_job /   *)
(* locked increment / re-enqueue loop, the sentinel branch), with          *)
(* WeatherDataManager.create_jobs of src/smhi/seed/station_data.py as the  *)
(* job source.  The manager and every worker are separate processes; each  *)
(* action is one step of one process.                                      *)
(***************************************************************************)
EXTENDS Integers, Sequences, FiniteSets, TLC

\* ---------------------------------------------------------------- bounds
MaxJobs == 2        \* most station ids create_jobs finds
MaxWorkers == 2     \* largest num_workers passed to the constructor
MaxFails == 2       \* most times process_job raises during one run
MaxIncr == 3        \* increments per worker in the counter harness
MaxReaders == 2     \* processes calling deserialize_from_shared_memory
MaxLen == 1         \* longest payload (a sequence of bits)
MaxCalls == 2       \* run() calls on one manager instance

\* The sentinel: `None` (job ids are the positive station ids).
None == 0

JobIds == 1..MaxJobs
WorkerIds == 1..MaxWorkers

\* Shared-memory processes: the publisher and the readers.
Publisher == 0
ReaderIds == 1..MaxReaders
\* The names readers ask for, the one of them the publisher uses, and the
\* page sizes of the platforms: 1 where a segment has exactly the size asked
\* for.
ShmNames == {1, 2}
PublishNames == {1}
PageSizes == {1, 4}

VARIABLES
    num_workers,       \* self.num_workers
    stations,          \* number of WeatherStation ids the select returns
    job_queue,         \* self.job_queue (manager.Queue(), FIFO)
    total_jobs,        \* self.total_jobs
    progress_counter,  \* self.progress_counter.value
    lock,              \* self.progress_counter.get_lock(): 0 free, else holder
    bar_current,       \* bar.current of the alive_bar
    workers,           \* self.workers
    mpc,               \* position of the manager inside run()
    mi,                \* index of the manager's current for-loop
    wpc,               \* position of each worker process
    wjob,              \* local `job` of each worker
    wtmp,              \* value read by `value += 1` before it is written back
    delivered,         \* history: times each job was returned by get()
    failed,            \* history: times process_job raised for each job
    counted,           \* history: increments performed for each job
    ok_calls,          \* history: process_job calls that returned normally
    sentinels_put,     \* history: put(None) calls made by stop_workers
    consumed,          \* history: sentinels each worker got from the queue
    iter,              \* counter harness: increments begun by each worker
    incr_target,       \* counter harness: M, increments per worker
    poison,            \* the job whose process_job raises on every call (0: none)
    nodata,            \* the station with no rows to insert (0: none)
    calls,             \* run() calls begun on this manager instance
    base_total,        \* history: total_jobs when the current call began
    base_workers,      \* history: len(self.workers) when the current call began
    base_sentinels,    \* history: sentinels put before the current call began
    rows,              \* committed insert(WeatherData) statements per station
    wtx,               \* station whose insert is pending in each worker's Session
    engine,            \* self.engine of each worker (None until get_engine())
    wsess,             \* engine of the orm.Session open in process_job
    released,          \* history: engines each worker called dispose() on
    acked,             \* history: task_done() calls of each worker
    page_size,         \* the platform rounds a segment's size up to this
    payload,           \* the data this run passes to serialize_to_shared_memory
    segs,              \* the segment each name is linked to, if any
    orphans,           \* unlinked segments that readers are still attached to
    ppc,               \* position of the publisher in serialize_to_shared_memory
    pseg,              \* name the publisher's current call is creating
    pres,              \* outcome of the publisher's last call
    rpc,               \* position of each reader in deserialize_from_shared_memory
    rname,             \* shm_name of each reader's current or last call
    rafter,            \* history: the segment was filled when the call began
    rres               \* outcome of each reader's current or last call

vars == <<num_workers, stations, job_queue, total_jobs, progress_counter, lock,
          bar_current, workers, mpc, mi, wpc, wjob, wtmp, delivered, failed,
          counted, ok_calls, sentinels_put, consumed, iter, incr_target,
          poison, nodata, calls, base_total, base_workers, base_sentinels,
          rows, wtx, engine, wsess, released, acked, page_size, payload,
          segs, orphans, ppc, pseg, pres, rpc, rname, rafter, rres>>

mgrVars == <<total_jobs, bar_current, workers, mpc, mi, sentinels_put>>
wrkVars == <<wpc, wjob, wtmp>>
histVars == <<delivered, failed, counted, ok_calls, consumed>>
callVars == <<calls, base_total, base_workers, base_sentinels>>
cfgVars == <<num_workers, stations, iter, incr_target, poison, nodata,
             callVars>>
dbVars == <<rows, wtx>>
engVars == <<engine, wsess, released, acked>>
shmVars == <<page_size, payload, segs, orphans, ppc, pseg, pres, rpc, rname, rafter,
             rres>>
poolVars == <<job_queue, progress_counter, lock, mgrVars, wrkVars, histVars,
              cfgVars, engVars, dbVars>>

\* ------------------------------------------------------------- helpers
Terminated == {"exited", "crashed"}
AfterSentinel == {"task_done", "dispose", "exited"}

RECURSIVE CountIn(_, _)
CountIn(q, x) ==
    IF q = <<>> THEN 0
    ELSE (IF Head(q) = x THEN 1 ELSE 0) + CountIn(Tail(q), x)

RECURSIVE SumTo(_, _)
SumTo(f, n) == IF n = 0 THEN 0 ELSE f[n] + SumTo(f, n - 1)

Started == {workers[i] : i \in 1..Len(workers)}

\* Outcome of a deserialize call: st is "ok" (val is the payload returned),
\* the name of the exception raised, "pending" or "none".
NoResult == [st |-> "none", val |-> <<>>]

\* No segment is linked to the name.
NoSeg == [live |-> FALSE, gone |-> FALSE, buf |-> <<>>, att |-> {}]

\* ---------------------------------------------------------------- Init
\* BaseManager.__init__: empty queue, no workers, counter 0, total_jobs 0;
\* BaseWorker.__init__: self.engine = None.
PoolFresh ==
    /\ stations \in 0..MaxJobs
    /\ job_queue = <<>>
    /\ total_jobs = 0
    /\ progress_counter = 0
    /\ lock = 0
    /\ bar_current = 0
    /\ workers = <<>>
    /\ mpc = "create_jobs"
    /\ mi = 0
    /\ wpc = [w \in WorkerIds |-> "unstarted"]
    /\ wjob = [w \in WorkerIds |-> None]
    /\ wtmp = [w \in WorkerIds |-> 0]
    /\ delivered = [j \in JobIds |-> 0]
    /\ failed = [j \in JobIds |-> 0]
    /\ counted = [j \in JobIds |-> 0]
    /\ ok_calls = 0
    /\ sentinels_put = 0
    /\ consumed = [w \in WorkerIds |-> 0]
    /\ iter = [w \in WorkerIds |-> 0]
    /\ incr_target = 0
    /\ engine = [w \in WorkerIds |-> None]
    /\ wsess = [w \in WorkerIds |-> None]
    /\ released = [w \in WorkerIds |-> <<>>]
    /\ acked = [w \in WorkerIds |-> 0]
    /\ calls = 1
    /\ base_total = 0
    /\ base_workers = 0
    /\ base_sentinels = 0
    /\ rows = [j \in JobIds |-> 0]
    /\ wtx = [w \in WorkerIds |-> None]
    /\ page_size = 1
    /\ payload = <<>>
    /\ segs = [n \in ShmNames |-> NoSeg]
    /\ orphans = {}
    /\ ppc = "idle"
    /\ pseg = 0
    /\ pres = "none"
    /\ rpc = [r \in ReaderIds |-> "idle"]
    /\ rname = [r \in ReaderIds |-> 0]
    /\ rafter = [r \in ReaderIds |-> FALSE]
    /\ rres = [r \in ReaderIds |-> NoResult]

\* src/smhi/multiprocessing.py: num_workers is what the caller passed (or
\* int(os.getenv("CORES"))), a positive count.
PoolInit ==
    /\ num_workers \in 1..MaxWorkers
    /\ PoolFresh

\* Every process_job call ends after finitely many failures.
Init == PoolInit /\ poison = 0 /\ nodata = 0

\* ------------------------------------------------------------- manager
\* Mutant: create_jobs puts the id without counting it.
CreateJobsPutUncounted ==
    /\ mpc = "create_jobs"
    /\ mi < stations
    /\ job_queue' = Append(job_queue, mi + 1)
    /\ mi' = mi + 1
    /\ UNCHANGED <<total_jobs, progress_counter, lock, bar_current, workers,
                   mpc, sentinels_put, wrkVars, histVars, cfgVars, engVars,
                   shmVars, dbVars>>

\* WeatherDataManager.create_jobs: one put and one total_jobs += 1 per id.
CreateJobsPut ==
    /\ mpc = "create_jobs"
    /\ mi < stations
    /\ job_queue' = Append(job_queue, mi + 1)
    /\ total_jobs' = total_jobs + 1
    /\ mi' = mi + 1
    /\ UNCHANGED <<progress_counter, lock, bar_current, workers, mpc,
                   sentinels_put, wrkVars, histVars, cfgVars, engVars,
                   shmVars, dbVars>>

CreateJobsReturn ==
    /\ mpc = "create_jobs"
    /\ mi = stations
    /\ mpc' = "check"
    /\ UNCHANGED <<job_queue, total_jobs, progress_counter, lock, bar_current,
                   workers, mi, sentinels_put, wrkVars, histVars, cfgVars, engVars,
                   shmVars, dbVars>>

\* Mutant: the zero-job test never fires.
NoJobsNever(t) == t < 0

\* run(): `if self.total_jobs == 0`
NoJobs(t) == t = 0

RunNoJobs ==
    /\ mpc = "check"
    /\ NoJobs(total_jobs)
    /\ mpc' = "returned"
    /\ UNCHANGED <<job_queue, total_jobs, progress_counter, lock, bar_current,
                   workers, mi, sentinels_put, wrkVars, histVars, cfgVars, engVars,
                   shmVars, dbVars>>

RunStartWorkers ==
    /\ mpc = "check"
    /\ ~NoJobs(total_jobs)
    /\ mpc' = "start_workers"
    /\ mi' = 0
    /\ UNCHANGED <<job_queue, total_jobs, progress_counter, lock, bar_current,
                   workers, sentinels_put, wrkVars, histVars, cfgVars, engVars,
                   shmVars, dbVars>>

\* start_workers: construct, append, start; the new process begins run().
StartWorker ==
    /\ mpc = "start_workers"
    /\ mi < num_workers
    /\ LET w == Len(workers) + 1 IN
        /\ workers' = Append(workers, w)
        /\ wpc' = [wpc EXCEPT ![w] = "start"]
    /\ mi' = mi + 1
    /\ UNCHANGED <<job_queue, total_jobs, progress_counter, lock, bar_current,
                   mpc, sentinels_put, wjob, wtmp, histVars, cfgVars, engVars,
                   shmVars, dbVars>>

StartWorkersReturn ==
    /\ mpc = "start_workers"
    /\ mi >= num_workers
    /\ mpc' = "wait"
    /\ UNCHANGED <<job_queue, total_jobs, progress_counter, lock, bar_current,
                   workers, mi, sentinels_put, wrkVars, histVars, cfgVars, engVars,
                   shmVars, dbVars>>

\* Mutant: the wait loop also waits when the counter equals the total.
WaitMoreInclusive(c, t) == c <= t

\* Mutant: the wait loop ends one job early.
WaitMoreOffByOne(c, t) == c < t - 1

\* `while self.progress_counter.value < self.total_jobs`
WaitMore(c, t) == c < t

WaitCheck ==
    /\ mpc = "wait"
    /\ mpc' = IF WaitMore(progress_counter, total_jobs) THEN "bar" ELSE "bar_final"
    /\ UNCHANGED <<job_queue, total_jobs, progress_counter, lock, bar_current,
                   workers, mi, sentinels_put, wrkVars, histVars, cfgVars, engVars,
                   shmVars, dbVars>>

\* `bar(self.progress_counter.value - bar.current)`
BarUpdate ==
    /\ mpc = "bar"
    /\ bar_current' = bar_current + (progress_counter - bar_current)
    /\ mpc' = "wait"
    /\ UNCHANGED <<job_queue, total_jobs, progress_counter, lock, workers, mi,
                   sentinels_put, wrkVars, histVars, cfgVars, engVars,
                   shmVars, dbVars>>

\* Mutant: the remainder is not rendered after the loop.
BarFinalSkipped ==
    /\ mpc = "bar_final"
    /\ mpc' = "put_sentinels"
    /\ mi' = 0
    /\ UNCHANGED <<job_queue, total_jobs, progress_counter, lock, bar_current,
                   workers, sentinels_put, wrkVars, histVars, cfgVars,
                   engVars, shmVars, dbVars>>

\* `bar(self.total_jobs - bar.current)`, then stop_workers() is entered.
BarFinal ==
    /\ mpc = "bar_final"
    /\ bar_current' = bar_current + (total_jobs - bar_current)
    /\ mpc' = "put_sentinels"
    /\ mi' = 0
    /\ UNCHANGED <<job_queue, total_jobs, progress_counter, lock, workers,
                   sentinels_put, wrkVars, histVars, cfgVars, engVars,
                   shmVars, dbVars>>

\* Mutant: one sentinel too many.
SentinelCountPlusOne(n) == n + 1

\* stop_workers: `for _ in range(self.num_workers): self.job_queue.put(None)`
SentinelCount(n) == n

PutSentinel ==
    /\ mpc = "put_sentinels"
    /\ mi < SentinelCount(num_workers)
    /\ job_queue' = Append(job_queue, None)
    /\ sentinels_put' = sentinels_put + 1
    /\ mi' = mi + 1
    /\ UNCHANGED <<total_jobs, progress_counter, lock, bar_current, workers,
                   mpc, wrkVars, histVars, cfgVars, engVars, shmVars, dbVars>>

PutSentinelsDone ==
    /\ mpc = "put_sentinels"
    /\ mi >= SentinelCount(num_workers)
    /\ mpc' = "join"
    /\ mi' = 0
    /\ UNCHANGED <<job_queue, total_jobs, progress_counter, lock, bar_current,
                   workers, sentinels_put, wrkVars, histVars, cfgVars, engVars,
                   shmVars, dbVars>>

\* Mutant: join() returns only for a worker that left through its sentinel.
JoinReturnsOnlyExited(s) == s = "exited"

\* Mutant: join() does not wait for the worker.
JoinReturnsAtOnce(s) == TRUE

\* worker.join() returns once the worker process has ended.
JoinReturns(s) == s \in Terminated

\* stop_workers: `for worker in self.workers: worker.join()`
JoinWorker ==
    /\ mpc = "join"
    /\ mi < Len(workers)
    /\ JoinReturns(wpc[workers[mi + 1]])
    /\ mi' = mi + 1
    /\ UNCHANGED <<job_queue, total_jobs, progress_counter, lock, bar_current,
                   workers, mpc, sentinels_put, wrkVars, histVars, cfgVars, engVars,
                   shmVars, dbVars>>

RunReturn ==
    /\ mpc = "join"
    /\ mi = Len(workers)
    /\ mpc' = "returned"
    /\ UNCHANGED <<job_queue, total_jobs, progress_counter, lock, bar_current,
                   workers, mi, sentinels_put, wrkVars, histVars, cfgVars, engVars,
                   shmVars, dbVars>>

Manager ==
    \/ CreateJobsPut
    \/ CreateJobsReturn
    \/ RunNoJobs
    \/ RunStartWorkers
    \/ StartWorker
    \/ StartWorkersReturn
    \/ WaitCheck
    \/ BarUpdate
    \/ BarFinal
    \/ PutSentinel
    \/ PutSentinelsDone
    \/ JoinWorker
    \/ RunReturn

\* -------------------------------------------------------------- worker
\* The engine the manager was constructed with (main.py: get_engine() in the
\* parent process): instance 1.
ManagerEngine == 1

\* Mutant: the worker takes over the manager's engine.
NewEngineShared(p) == ManagerEngine

\* get_engine() runs create_engine() inside the calling process: a new
\* instance in the address space of worker process p, named p + 1.
NewEngine(p) == p + 1

\* `self.engine = get_engine()` returns an engine.
GetEngine(w) ==
    /\ wpc[w] = "start"
    /\ wpc' = [wpc EXCEPT ![w] = "get"]
    /\ engine' = [engine EXCEPT ![w] = NewEngine(w)]
    /\ UNCHANGED <<job_queue, progress_counter, lock, wjob, wtmp, mgrVars,
                   histVars, cfgVars, wsess, released, acked, shmVars, dbVars>>

\* get_engine() raises: the exception leaves run() and the process ends.
GetEngineRaise(w) ==
    /\ wpc[w] = "start"
    /\ wpc' = [wpc EXCEPT ![w] = "crashed"]
    /\ UNCHANGED <<job_queue, progress_counter, lock, wjob, wtmp, mgrVars,
                   histVars, cfgVars, engVars, shmVars, dbVars>>

\* Mutant: get() hands out the head of the queue without removing it.
GetPeek(w) ==
    /\ wpc[w] = "get"
    /\ job_queue # <<>>
    /\ LET job == Head(job_queue) IN
        IF job = None
        THEN /\ wpc' = [wpc EXCEPT ![w] = "task_done"]
             /\ consumed' = [consumed EXCEPT ![w] = @ + 1]
             /\ job_queue' = Tail(job_queue)
             /\ UNCHANGED <<wjob, delivered, wsess>>
        ELSE /\ wpc' = [wpc EXCEPT ![w] = "process"]
             /\ wjob' = [wjob EXCEPT ![w] = job]
             /\ wsess' = [wsess EXCEPT ![w] = engine[w]]
             /\ delivered' = [delivered EXCEPT
                                ![job] = IF job = poison /\ @ >= 2 THEN @ ELSE @ + 1]
             /\ UNCHANGED <<consumed, job_queue>>
    /\ UNCHANGED <<progress_counter, lock, wtmp, mgrVars, failed, counted,
                   ok_calls, cfgVars, engine, released, acked, shmVars, dbVars>>

\* `job = self.job_queue.get()` blocks while the queue is empty;
\* `if job is None` selects the sentinel branch; otherwise process_job(job)
\* is entered (WeatherDataWorker: `with orm.Session(self.engine)`).
\* (The deliveries of the always-failing job are unbounded: their count
\* stops at 2, "delivered again".)
Get(w) ==
    /\ wpc[w] = "get"
    /\ job_queue # <<>>
    /\ job_queue' = Tail(job_queue)
    /\ LET job == Head(job_queue) IN
        IF job = None
        THEN /\ wpc' = [wpc EXCEPT ![w] = "task_done"]
             /\ consumed' = [consumed EXCEPT ![w] = @ + 1]
             /\ UNCHANGED <<wjob, delivered, wsess>>
        ELSE /\ wpc' = [wpc EXCEPT ![w] = "process"]
             /\ wjob' = [wjob EXCEPT ![w] = job]
             /\ wsess' = [wsess EXCEPT ![w] = engine[w]]
             /\ delivered' = [delivered EXCEPT
                                ![job] = IF job = poison /\ @ >= 2 THEN @ ELSE @ + 1]
             /\ UNCHANGED consumed
    /\ UNCHANGED <<progress_counter, lock, wtmp, mgrVars, failed, counted,
                   ok_calls, cfgVars, engine, released, acked, shmVars, dbVars>>

\* `self.job_queue.task_done()`
TaskDone(w) ==
    /\ wpc[w] = "task_done"
    /\ wpc' = [wpc EXCEPT ![w] = "dispose"]
    /\ acked' = [acked EXCEPT ![w] = @ + 1]
    /\ UNCHANGED <<job_queue, progress_counter, lock, wjob, wtmp, mgrVars,
                   histVars, cfgVars, engine, wsess, released, shmVars, dbVars>>

\* Mutant: the `break` is missing, the loop goes on.
AfterDisposeLoop == "get"

\* Where a worker goes after `self.engine.dispose()`: `break` ends run().
AfterDispose == "exited"

\* Mutant: the sentinel branch leaves without dispose().
DisposeSkipped(w) ==
    /\ wpc[w] = "dispose"
    /\ wpc' = [wpc EXCEPT ![w] = AfterDispose]
    /\ UNCHANGED <<job_queue, progress_counter, lock, wjob, wtmp, mgrVars,
                   histVars, cfgVars, engVars, shmVars, dbVars>>

\* `self.engine.dispose()`, then `break`.
Dispose(w) ==
    /\ wpc[w] = "dispose"
    /\ wpc' = [wpc EXCEPT ![w] = AfterDispose]
    /\ released' = [released EXCEPT ![w] = Append(@, engine[w])]
    /\ UNCHANGED <<job_queue, progress_counter, lock, wjob, wtmp, mgrVars,
                   histVars, cfgVars, engine, wsess, acked, shmVars, dbVars>>

\* WeatherDataWorker.process_job: a station that is missing, or whose
\* fetch returns nothing, has no rows to insert.
HasData(j) == j # nodata

\* `self.process_job(job)` returns normally (never for the always-failing
\* job): the station's rows are inserted and committed when it has any, and
\* its Session is closed.
ProcessJobOk(w) ==
    /\ wpc[w] = "process"
    /\ wjob[w] # poison
    /\ wpc' = [wpc EXCEPT ![w] = "acquire"]
    /\ wsess' = [wsess EXCEPT ![w] = None]
    /\ ok_calls' = ok_calls + 1
    /\ rows' = IF HasData(wjob[w]) THEN [rows EXCEPT ![wjob[w]] = @ + 1]
               ELSE rows
    /\ UNCHANGED <<job_queue, progress_counter, lock, wjob, wtmp, mgrVars,
                   delivered, failed, counted, consumed, cfgVars, engine,
                   released, acked, shmVars, wtx>>

\* The raises of jobs that succeed in the end: at most MaxFails in a run, at
\* most one in a run that also has an always-failing job.
FailBudget == IF poison = 0 THEN MaxFails ELSE 1

\* `self.process_job(job)` raises an Exception: at most FailBudget times in
\* all for the other jobs, every time for the always-failing job (whose
\* failures are unbounded and are not counted).
ProcessJobRaise(w) ==
    /\ wpc[w] = "process"
    /\ wjob[w] = poison \/ SumTo(failed, MaxJobs) < FailBudget
    /\ wpc' = [wpc EXCEPT ![w] = "except"]
    /\ wsess' = [wsess EXCEPT ![w] = None]
    /\ failed' = IF wjob[w] = poison THEN failed
                  ELSE [failed EXCEPT ![wjob[w]] = @ + 1]
    /\ UNCHANGED <<job_queue, progress_counter, lock, wjob, wtmp, mgrVars,
                   delivered, counted, ok_calls, consumed, cfgVars, engine,
                   released, acked, shmVars, dbVars>>

\* Mutant: the failed job is not put back.
RequeueDrop(w) ==
    /\ wpc[w] = "except"
    /\ wpc' = [wpc EXCEPT ![w] = "get"]
    /\ wjob' = [wjob EXCEPT ![w] = None]
    /\ UNCHANGED <<job_queue, progress_counter, lock, wtmp, mgrVars, histVars,
                   cfgVars, engVars, shmVars, dbVars>>

\* Mutant: the failed job is put back twice.
RequeueTwice(w) ==
    /\ wpc[w] = "except"
    /\ job_queue' = Append(Append(job_queue, wjob[w]), wjob[w])
    /\ wpc' = [wpc EXCEPT ![w] = "get"]
    /\ wjob' = [wjob EXCEPT ![w] = None]
    /\ UNCHANGED <<progress_counter, lock, wtmp, mgrVars, histVars, cfgVars,
                   engVars, shmVars, dbVars>>

\* Mutant: the except block also counts the job as progress.
RequeueCounted(w) ==
    /\ wpc[w] = "except"
    /\ job_queue' = Append(job_queue, wjob[w])
    /\ progress_counter' = progress_counter + 1
    /\ wpc' = [wpc EXCEPT ![w] = "get"]
    /\ wjob' = [wjob EXCEPT ![w] = None]
    /\ UNCHANGED <<lock, wtmp, mgrVars, histVars, cfgVars, engVars, shmVars, dbVars>>

\* `except Exception`: print, `self.job_queue.put(job)`, back to the loop top.
\* (`job` is dead until the next get() overwrites it.)
Requeue(w) ==
    /\ wpc[w] = "except"
    /\ job_queue' = Append(job_queue, wjob[w])
    /\ wpc' = [wpc EXCEPT ![w] = "get"]
    /\ wjob' = [wjob EXCEPT ![w] = None]
    /\ UNCHANGED <<progress_counter, lock, wtmp, mgrVars, histVars, cfgVars,
                   engVars, shmVars, dbVars>>

\* Mutant: the increment is not guarded by the lock.
LockIgnored(l) == TRUE

\* `with self.progress_counter.get_lock()` is entered only when it is free.
LockFree(l) == l = 0

AcquireLock(w) ==
    /\ wpc[w] = "acquire"
    /\ LockFree(lock)
    /\ lock' = w
    /\ wpc' = [wpc EXCEPT ![w] = "read"]
    /\ UNCHANGED <<job_queue, progress_counter, wjob, wtmp, mgrVars, histVars,
                   cfgVars, engVars, shmVars, dbVars>>

\* `self.progress_counter.value += 1`: the read half.
ReadCounter(w) ==
    /\ wpc[w] = "read"
    /\ wtmp' = [wtmp EXCEPT ![w] = progress_counter]
    /\ wpc' = [wpc EXCEPT ![w] = "write"]
    /\ UNCHANGED <<job_queue, progress_counter, lock, wjob, mgrVars, histVars,
                   cfgVars, engVars, shmVars, dbVars>>

\* Mutant: the increment adds two.
IncrementedByTwo(v) == v + 2

\* `value += 1` writes back the value read plus one.
Incremented(v) == v + 1

\* The write half, then the `with` block releases the lock.
WriteCounter(w) ==
    /\ wpc[w] = "write"
    /\ progress_counter' = Incremented(wtmp[w])
    /\ lock' = IF lock = w THEN 0 ELSE lock
    /\ wpc' = [wpc EXCEPT ![w] = "get"]
    /\ wjob' = [wjob EXCEPT ![w] = None]
    /\ wtmp' = [wtmp EXCEPT ![w] = 0]
    /\ counted' = IF wjob[w] \in JobIds
                  THEN [counted EXCEPT ![wjob[w]] = @ + 1]
                  ELSE counted
    /\ UNCHANGED <<job_queue, mgrVars, delivered, failed, ok_calls, consumed,
                   cfgVars, engVars, shmVars, dbVars>>

Worker(w) ==
    \/ GetEngine(w)
    \/ GetEngineRaise(w)
    \/ Get(w)
    \/ TaskDone(w)
    \/ Dispose(w)
    \/ ProcessJobOk(w)
    \/ ProcessJobRaise(w)
    \/ Requeue(w)
    \/ AcquireLock(w)
    \/ ReadCounter(w)
    \/ WriteCounter(w)

Next == Manager \/ \E w \in WorkerIds : Worker(w)

Spec == Init /\ [][Next]_vars

\* ------------------------------------------------------ counter harness
\* N workers, each running the locked increment of BaseWorker.run M times on
\* one shared counter (the try body with a process_job that returns at once).
InitCounter ==
    /\ num_workers \in 1..MaxWorkers
    /\ incr_target \in 1..MaxIncr
    /\ stations = 0
    /\ job_queue = <<>>
    /\ total_jobs = 0
    /\ progress_counter = 0
    /\ lock = 0
    /\ bar_current = 0
    /\ workers = [i \in 1..num_workers |-> i]
    /\ mpc = "harness"
    /\ mi = 0
    /\ wpc = [w \in WorkerIds |-> IF w <= num_workers THEN "get" ELSE "unstarted"]
    /\ wjob = [w \in WorkerIds |-> None]
    /\ wtmp = [w \in WorkerIds |-> 0]
    /\ delivered = [j \in JobIds |-> 0]
    /\ failed = [j \in JobIds |-> 0]
    /\ counted = [j \in JobIds |-> 0]
    /\ ok_calls = 0
    /\ sentinels_put = 0
    /\ consumed = [w \in WorkerIds |-> 0]
    /\ iter = [w \in WorkerIds |-> 0]
    /\ poison = 0
    /\ nodata = 0
    /\ engine = [w \in WorkerIds |-> None]
    /\ wsess = [w \in WorkerIds |-> None]
    /\ released = [w \in WorkerIds |-> <<>>]
    /\ acked = [w \in WorkerIds |-> 0]
    /\ calls = 1
    /\ base_total = 0
    /\ base_workers = 0
    /\ base_sentinels = 0
    /\ rows = [j \in JobIds |-> 0]
    /\ wtx = [w \in WorkerIds |-> None]
    /\ page_size = 1
    /\ payload = <<>>
    /\ segs = [n \in ShmNames |-> NoSeg]
    /\ orphans = {}
    /\ ppc = "idle"
    /\ pseg = 0
    /\ pres = "none"
    /\ rpc = [r \in ReaderIds |-> "idle"]
    /\ rname = [r \in ReaderIds |-> 0]
    /\ rafter = [r \in ReaderIds |-> FALSE]
    /\ rres = [r \in ReaderIds |-> NoResult]

\* One more pass through the try body: process_job returned.
BeginIncrement(w) ==
    /\ wpc[w] = "get"
    /\ iter[w] < incr_target
    /\ iter' = [iter EXCEPT ![w] = @ + 1]
    /\ wpc' = [wpc EXCEPT ![w] = "acquire"]
    /\ ok_calls' = ok_calls + 1
    /\ UNCHANGED <<job_queue, progress_counter, lock, wjob, wtmp, mgrVars,
                   delivered, failed, counted, consumed, num_workers, stations,
                   incr_target, poison, nodata, callVars, engVars, shmVars,
                   dbVars>>

NextCounter ==
    \E w \in WorkerIds :
        \/ BeginIncrement(w)
        \/ AcquireLock(w)
        \/ ReadCounter(w)
        \/ WriteCounter(w)

SpecCounter == InitCounter /\ [][NextCounter]_vars

\* ------------------------------------------------------------ fairness
\* The manager and every worker are operating-system processes: each keeps
\* being scheduled while it has a step to take.
FairSpec ==
    /\ Spec
    /\ WF_vars(Manager)
    /\ \A w \in WorkerIds : WF_vars(Worker(w))

\* ------------------------------------------- errors the loop lets through
\* `self.job_queue.get()` raises (line 32 is outside the try): the exception
\* leaves run() and the process ends; dispose() is not reached.
LoopErrorAtGet(w) ==
    /\ wpc[w] = "get"
    /\ wpc' = [wpc EXCEPT ![w] = "crashed"]
    /\ UNCHANGED <<job_queue, progress_counter, lock, wjob, wtmp, mgrVars,
                   histVars, cfgVars, engVars, shmVars, dbVars>>

\* process_job raises a BaseException that is no Exception (KeyboardInterrupt,
\* SystemExit): `except Exception` does not catch it, the Session's `with`
\* closes, the exception leaves run() and the process ends.
LoopErrorInJob(w) ==
    /\ wpc[w] = "process"
    /\ wpc' = [wpc EXCEPT ![w] = "crashed"]
    /\ wsess' = [wsess EXCEPT ![w] = None]
    /\ UNCHANGED <<job_queue, progress_counter, lock, wjob, wtmp, mgrVars,
                   histVars, cfgVars, engine, released, acked, shmVars, dbVars>>

NextLoopError ==
    \/ Next
    \/ \E w \in WorkerIds : LoopErrorAtGet(w)
    \/ \E w \in WorkerIds : LoopErrorInJob(w)

SpecLoopError == Init /\ [][NextLoopError]_vars

\* ------------------------------------------------- a worker fails to start
\* Mutant: the failed start is swallowed and the loop goes on.
StartWorkerRaiseSwallowed ==
    /\ mpc = "start_workers"
    /\ mi < num_workers
    /\ workers' = Append(workers, Len(workers) + 1)
    /\ mi' = mi + 1
    /\ UNCHANGED <<job_queue, total_jobs, progress_counter, lock, bar_current,
                   mpc, sentinels_put, wrkVars, histVars, cfgVars, engVars,
                   shmVars, dbVars>>

\* Mutant: the failed start is handled by telling the started workers to stop.
StartWorkerRaiseStops ==
    /\ mpc = "start_workers"
    /\ mi < num_workers
    /\ workers' = Append(workers, Len(workers) + 1)
    /\ job_queue' = Append(job_queue, None)
    /\ sentinels_put' = sentinels_put + 1
    /\ mpc' = "raised"
    /\ UNCHANGED <<total_jobs, progress_counter, lock, bar_current, mi,
                   wrkVars, histVars, cfgVars, engVars, shmVars, dbVars>>

\* start_workers: the worker is constructed and appended, then
\* `worker.start()` raises; the exception leaves start_workers and run().
StartWorkerRaise ==
    /\ mpc = "start_workers"
    /\ mi < num_workers
    /\ workers' = Append(workers, Len(workers) + 1)
    /\ mpc' = "raised"
    /\ UNCHANGED <<job_queue, total_jobs, progress_counter, lock, bar_current,
                   mi, sentinels_put, wrkVars, histVars, cfgVars, engVars,
                   shmVars, dbVars>>

NextStartFail == Next \/ StartWorkerRaise

SpecStartFail == Init /\ [][NextStartFail]_vars

\* The processes keep being scheduled; a start() need not fail.
FairStartFail ==
    /\ SpecStartFail
    /\ WF_vars(Manager)
    /\ \A w \in WorkerIds : WF_vars(Worker(w))

\* ------------------------------------------- a job that fails every time
\* As Init, but one of the enumerated jobs may be one whose handler raises
\* on every call.  (The runs without such a job are those of Spec; only the
\* ones with a single worker and at most one job are repeated here.)
InitPoison ==
    /\ PoolInit
    /\ poison \in 0..stations
    /\ nodata = 0
    /\ poison = 0 => num_workers = 1 /\ stations <= 1

SpecPoison == InitPoison /\ [][Next]_vars

FairPoison ==
    /\ SpecPoison
    /\ WF_vars(Manager)
    /\ \A w \in WorkerIds : WF_vars(Worker(w))

\* ------------------------------------------- the default worker count
\* src/smhi/smhi/util/multiprocessing.py: BaseManager.__init__ with
\* num_workers=-1 as the default.  Line 48 resolves -1 to os.cpu_count();
\* line 52 assigns the argument to self.num_workers again.
DefaultArg == 0 - 1
CtorArgs == {DefaultArg} \cup (1..MaxWorkers)
CpuCounts == 1..MaxWorkers

UtilNumWorkers(arg, cpus) ==
    LET line48 == IF arg = DefaultArg THEN cpus ELSE arg
        line52 == arg
    IN line52

\* range(self.num_workers) is empty for -1: StartWorker and PutSentinel are
\* never enabled then.
InitDefault ==
    /\ \E arg \in CtorArgs, cpus \in CpuCounts :
          num_workers = UtilNumWorkers(arg, cpus)
    /\ PoolFresh
    /\ poison = 0
    /\ nodata = 0

SpecDefault == InitDefault /\ [][Next]_vars

\* ------------------------------------- the steps of one process_job call
\* WeatherDataWorker.process_job taken apart: the fetch, the insert into the
\* Session's transaction, the commit.  A raise at any of them leaves through
\* `with orm.Session(...)`, which closes the Session and so rolls back what
\* was not committed.  The raises share the budget of ProcessJobRaise.

\* Lines 39-43: the station is missing, or the fetch returned nothing:
\* process_job returns without an insert.
JobNoData(w) ==
    /\ wpc[w] = "process"
    /\ ~HasData(wjob[w])
    /\ wpc' = [wpc EXCEPT ![w] = "acquire"]
    /\ wsess' = [wsess EXCEPT ![w] = None]
    /\ ok_calls' = ok_calls + 1
    /\ UNCHANGED <<job_queue, progress_counter, lock, wjob, wtmp, mgrVars,
                   delivered, failed, counted, consumed, cfgVars, engine,
                   released, acked, shmVars, dbVars>>

\* Line 42: fetch_weather_station_data returns the station's records.
JobFetched(w) ==
    /\ wpc[w] = "process"
    /\ HasData(wjob[w])
    /\ wpc' = [wpc EXCEPT ![w] = "insert"]
    /\ UNCHANGED <<job_queue, progress_counter, lock, wjob, wtmp, mgrVars,
                   histVars, cfgVars, engVars, shmVars, dbVars>>

\* Lines 50-51: the response is not 200, ConnectionError.
JobFetchRaise(w) ==
    /\ wpc[w] = "process"
    /\ SumTo(failed, MaxJobs) < FailBudget
    /\ wpc' = [wpc EXCEPT ![w] = "except"]
    /\ wsess' = [wsess EXCEPT ![w] = None]
    /\ failed' = [failed EXCEPT ![wjob[w]] = @ + 1]
    /\ UNCHANGED <<job_queue, progress_counter, lock, wjob, wtmp, mgrVars,
                   delivered, counted, ok_calls, consumed, cfgVars, engine,
                   released, acked, shmVars, dbVars>>

\* Line 44: db_session.execute(insert(WeatherData), station_data): the rows
\* are in the Session's open transaction.
JobInsert(w) ==
    /\ wpc[w] = "insert"
    /\ wtx' = [wtx EXCEPT ![w] = wjob[w]]
    /\ wpc' = [wpc EXCEPT ![w] = "commit"]
    /\ UNCHANGED <<job_queue, progress_counter, lock, wjob, wtmp, mgrVars,
                   histVars, cfgVars, engVars, shmVars, rows>>

\* Line 45: db_session.commit() makes the rows durable; process_job returns.
JobCommit(w) ==
    /\ wpc[w] = "commit"
    /\ rows' = [rows EXCEPT ![wtx[w]] = @ + 1]
    /\ wtx' = [wtx EXCEPT ![w] = None]
    /\ wpc' = [wpc EXCEPT ![w] = "acquire"]
    /\ wsess' = [wsess EXCEPT ![w] = None]
    /\ ok_calls' = ok_calls + 1
    /\ UNCHANGED <<job_queue, progress_counter, lock, wjob, wtmp, mgrVars,
                   delivered, failed, counted, consumed, cfgVars, engine,
                   released, acked, shmVars>>

\* Mutant: the commit took effect although it raised.
JobCommitRaiseKeepsRows(w) ==
    /\ wpc[w] = "commit"
    /\ SumTo(failed, MaxJobs) < FailBudget
    /\ rows' = [rows EXCEPT ![wtx[w]] = @ + 1]
    /\ wtx' = [wtx EXCEPT ![w] = None]
    /\ wpc' = [wpc EXCEPT ![w] = "except"]
    /\ wsess' = [wsess EXCEPT ![w] = None]
    /\ failed' = [failed EXCEPT ![wjob[w]] = @ + 1]
    /\ UNCHANGED <<job_queue, progress_counter, lock, wjob, wtmp, mgrVars,
                   delivered, counted, ok_calls, consumed, cfgVars, engine,
                   released, acked, shmVars>>

\* Lines 44-45 raise (execute or commit fails): the Session is closed on the
\* way out and its transaction is rolled back.
JobCommitRaise(w) ==
    /\ wpc[w] = "commit"
    /\ SumTo(failed, MaxJobs) < FailBudget
    /\ wtx' = [wtx EXCEPT ![w] = None]
    /\ wpc' = [wpc EXCEPT ![w] = "except"]
    /\ wsess' = [wsess EXCEPT ![w] = None]
    /\ failed' = [failed EXCEPT ![wjob[w]] = @ + 1]
    /\ UNCHANGED <<job_queue, progress_counter, lock, wjob, wtmp, mgrVars,
                   delivered, counted, ok_calls, consumed, cfgVars, engine,
                   released, acked, shmVars, rows>>

WorkerRetry(w) ==
    \/ GetEngine(w)
    \/ GetEngineRaise(w)
    \/ Get(w)
    \/ TaskDone(w)
    \/ Dispose(w)
    \/ JobNoData(w)
    \/ JobFetched(w)
    \/ JobFetchRaise(w)
    \/ JobInsert(w)
    \/ JobCommit(w)
    \/ JobCommitRaise(w)
    \/ Requeue(w)
    \/ AcquireLock(w)
    \/ ReadCounter(w)
    \/ WriteCounter(w)

\* One or two workers; at most one of the stations is without rows.
InitRetry ==
    /\ num_workers \in 1..2
    /\ PoolFresh
    /\ poison = 0
    /\ nodata \in 0..stations

NextRetry == Manager \/ \E w \in WorkerIds : WorkerRetry(w)

SpecRetry == InitRetry /\ [][NextRetry]_vars

\* ---------------------------------------- run() again on the same manager
\* A call of run() that follows one that returned, on the same instance.
\* __init__ is not run again: total_jobs, the counter, the queue and
\* self.workers are what the earlier call left; create_jobs queries the
\* stations anew and puts what it finds; a new alive_bar starts at 0.  The
\* histories of the jobs start again with the call.
RunAgain ==
    /\ mpc = "returned"
    /\ calls < MaxCalls
    /\ calls' = calls + 1
    /\ stations' \in 0..MaxJobs
    /\ base_total' = total_jobs
    /\ base_workers' = Len(workers)
    /\ base_sentinels' = sentinels_put
    /\ mpc' = "create_jobs"
    /\ mi' = 0
    /\ bar_current' = 0
    /\ delivered' = [j \in JobIds |-> 0]
    /\ failed' = [j \in JobIds |-> 0]
    /\ counted' = [j \in JobIds |-> 0]
    /\ UNCHANGED <<job_queue, total_jobs, progress_counter, lock, workers,
                   sentinels_put, wrkVars, ok_calls, consumed, num_workers,
                   iter, incr_target, poison, nodata, engVars, shmVars,
                   dbVars>>

\* Every call starts num_workers new processes.
InitRerun ==
    /\ num_workers \in 1..(MaxWorkers \div MaxCalls)
    /\ PoolFresh
    /\ poison = 0
    /\ nodata = 0

NextRerun == Next \/ RunAgain

SpecRerun == InitRerun /\ [][NextRerun]_vars

\* ------------------------------------------------------- shared memory
\* serialize_to_shared_memory and deserialize_from_shared_memory, called by
\* one publisher and by MaxReaders readers running concurrently.  A payload
\* is a sequence of bits, the same in every call of a run.  The segment of a
\* name is a record: whether it exists (live), whether its owner has
\* destroyed it (gone), its bytes, and the processes attached to it.
\* A destroyed segment that readers still have mapped is kept in orphans
\* until the last of them detaches.

Payloads == UNION {[1..k -> 0..1] : k \in 0..MaxLen}

Zeros(n) == [i \in 1..n |-> 0]

\* The size the platform gives a segment asked to hold k bytes.
RoundUp(k) == ((k + page_size - 1) \div page_size) * page_size

\* pickle: a protocol header, one opcode for each item, and a STOP opcode.
PickleProto == 128
PickleStop == 46
PickleTrue == 136
PickleFalse == 137

ItemByte(e) == IF e = 1 THEN PickleTrue ELSE PickleFalse

\* pickle.dumps(data)
Dumps(p) == <<PickleProto>> \o [i \in 1..Len(p) |-> ItemByte(p[i])]
                            \o <<PickleStop>>

UnpicklingError == [st |-> "UnpicklingError", val |-> <<>>]

RECURSIVE LoadItems(_, _, _)
LoadItems(b, i, acc) ==
    IF i > Len(b) THEN UnpicklingError
    ELSE IF b[i] = PickleStop THEN [st |-> "ok", val |-> acc]
    ELSE IF b[i] = PickleTrue THEN LoadItems(b, i + 1, Append(acc, 1))
    ELSE IF b[i] = PickleFalse THEN LoadItems(b, i + 1, Append(acc, 0))
    ELSE UnpicklingError

LoadsStrict(b) ==
    IF Len(b) = 0 \/ b[1] # PickleProto \/ b[Len(b)] # PickleStop
    THEN UnpicklingError
    ELSE LoadItems(b, 2, <<>>)

\* pickle.loads(data_bytes): reads up to the STOP opcode and ignores what
\* follows it; raises on a byte that is no opcode and on a missing STOP.
Loads(b) ==
    IF Len(b) = 0 \/ b[1] # PickleProto
    THEN UnpicklingError
    ELSE LoadItems(b, 2, <<>>)

NameLiveAlways(n) == TRUE

\* A segment of this name exists: SharedMemory(name=n) can attach to it and
\* SharedMemory(create=True, name=n) cannot create it.
NameLive(n) == segs[n].live

\* The publisher has copied the bytes into the segment of name n.
Filled(n) == ~(ppc = "created" /\ pseg = n)

\* The segment reader r has mapped.
Mapped(r) ==
    IF \E n \in ShmNames : r \in segs[n].att
    THEN segs[CHOOSE n \in ShmNames : r \in segs[n].att]
    ELSE CHOOSE o \in orphans : r \in o.att

\* Line 118-119: SharedMemory(create=True, size=len(data_bytes), name=n)
\* creates a zero-filled segment, rounded up by the platform, and attaches
\* the publisher.  shm_name=None is the choice of a name that is not live.
ShmCreate(n) ==
    /\ ppc = "idle"
    /\ ~NameLive(n)
    /\ segs' = [segs EXCEPT ![n] = [live |-> TRUE,
                                    gone |-> FALSE,
                                    buf |-> Zeros(RoundUp(Len(Dumps(payload)))),
                                    att |-> {Publisher}]]
    /\ pseg' = n
    /\ ppc' = "created"
    /\ pres' = "pending"
    /\ UNCHANGED <<page_size, payload, orphans, rpc, rname, rafter, rres, poolVars>>

\* Mutant: the create opens the segment that exists and goes on to the copy.
ShmCreateExistsAttaches(n) ==
    /\ ppc = "idle"
    /\ NameLive(n)
    /\ pseg' = n
    /\ ppc' = "created"
    /\ pres' = "pending"
    /\ UNCHANGED <<page_size, payload, segs, orphans, rpc, rname, rafter,
                   rres, poolVars>>

\* Line 119 on a name that is live: FileExistsError, nothing is created.
ShmCreateExists(n) ==
    /\ ppc = "idle"
    /\ NameLive(n)
    /\ pres' = "FileExistsError"
    /\ UNCHANGED <<page_size, payload, segs, orphans, ppc, pseg, rpc, rname, rafter,
                   rres, poolVars>>

\* Lines 120-121: shm.buf[:len(data_bytes)] = data_bytes; return shm, shm.name
ShmCopy ==
    /\ ppc = "created"
    /\ LET d == Dumps(payload)
       IN segs' = [segs EXCEPT ![pseg].buf =
                      [i \in 1..Len(@) |-> IF i <= Len(d) THEN d[i] ELSE @[i]]]
    /\ ppc' = "idle"
    /\ pseg' = 0
    /\ pres' = "ok"
    /\ UNCHANGED <<page_size, payload, orphans, rpc, rname, rafter, rres, poolVars>>

\* The owner of the returned handle closes and unlinks the segment; readers
\* that have it mapped keep it until they detach.
OwnerDestroy(n) ==
    /\ ppc = "idle"
    /\ segs[n].live
    /\ LET left == segs[n].att \ {Publisher}
       IN orphans' = IF left = {}
                     THEN orphans
                     ELSE orphans \cup
                          {[segs[n] EXCEPT !.live = FALSE, !.att = left]}
    /\ segs' = [segs EXCEPT ![n] = [NoSeg EXCEPT !.gone = TRUE]]
    /\ UNCHANGED <<page_size, payload, ppc, pseg, pres, rpc, rname, rafter, rres,
                   poolVars>>

\* Line 134: SharedMemory(name=shm_name) attaches to the live segment of that
\* name, or raises FileNotFoundError out of the call when there is none.
FetchOpen(r, n) ==
    /\ rpc[r] = "idle"
    /\ rname' = [rname EXCEPT ![r] = n]
    /\ IF NameLive(n)
       THEN /\ segs' = [segs EXCEPT ![n].att = @ \cup {r}]
            /\ rafter' = [rafter EXCEPT ![r] = Filled(n)]
            /\ rres' = [rres EXCEPT ![r] = [st |-> "pending", val |-> <<>>]]
            /\ rpc' = [rpc EXCEPT ![r] = "attached"]
       ELSE /\ rres' = [rres EXCEPT ![r] =
                           [st |-> "FileNotFoundError", val |-> <<>>]]
            /\ UNCHANGED <<segs, rpc, rafter>>
    /\ UNCHANGED <<page_size, payload, orphans, ppc, pseg, pres, poolVars>>

\* Lines 136-137: data_bytes = bytes(shm.buf[:]); data = pickle.loads(...)
FetchLoad(r) ==
    /\ rpc[r] = "attached"
    /\ rres' = [rres EXCEPT ![r] = Loads(Mapped(r).buf)]
    /\ rpc' = [rpc EXCEPT ![r] = "loaded"]
    /\ UNCHANGED <<page_size, payload, segs, orphans, ppc, pseg, pres, rname, rafter,
                   poolVars>>

\* shm.close() by reader r; the platform frees a destroyed segment when its
\* last attachment goes.
Detach(r) ==
    /\ segs' = [n \in ShmNames |-> [segs[n] EXCEPT !.att = @ \ {r}]]
    /\ orphans' = {[o EXCEPT !.att = @ \ {r}] :
                      o \in {x \in orphans : x.att # {r}}}

FetchCloseNoFinally(r) ==
    /\ rpc[r] = "loaded"
    /\ IF rres[r].st = "ok" THEN Detach(r) ELSE UNCHANGED <<segs, orphans>>
    /\ rpc' = [rpc EXCEPT ![r] = "idle"]
    /\ rname' = [rname EXCEPT ![r] = 0]
    /\ rafter' = [rafter EXCEPT ![r] = FALSE]
    /\ rres' = [rres EXCEPT ![r].val = <<>>]
    /\ UNCHANGED <<page_size, payload, ppc, pseg, pres, poolVars>>

\* Lines 138-140: finally: shm.close(); then return data, or let the error
\* out.  The value goes to the caller; rres keeps how the call ended.
FetchClose(r) ==
    /\ rpc[r] = "loaded"
    /\ Detach(r)
    /\ rpc' = [rpc EXCEPT ![r] = "idle"]
    /\ rname' = [rname EXCEPT ![r] = 0]
    /\ rafter' = [rafter EXCEPT ![r] = FALSE]
    /\ rres' = [rres EXCEPT ![r].val = <<>>]
    /\ UNCHANGED <<page_size, payload, ppc, pseg, pres, poolVars>>

PublisherStep ==
    \/ \E n \in PublishNames : ShmCreate(n)
    \/ \E n \in PublishNames : ShmCreateExists(n)
    \/ ShmCopy
    \/ \E n \in PublishNames : OwnerDestroy(n)

Reader(r) ==
    \/ \E n \in ShmNames : FetchOpen(r, n)
    \/ FetchLoad(r)
    \/ FetchClose(r)

\* The pool is idle; the platform's page size and the data are fixed for the
\* run.
InitShm ==
    /\ num_workers = 1
    /\ stations = 0
    /\ job_queue = <<>>
    /\ total_jobs = 0
    /\ progress_counter = 0
    /\ lock = None
    /\ bar_current = 0
    /\ workers = <<>>
    /\ mpc = "harness"
    /\ mi = 0
    /\ wpc = [w \in WorkerIds |-> "unstarted"]
    /\ wjob = [w \in WorkerIds |-> None]
    /\ wtmp = [w \in WorkerIds |-> 0]
    /\ delivered = [j \in JobIds |-> 0]
    /\ failed = [j \in JobIds |-> 0]
    /\ counted = [j \in JobIds |-> 0]
    /\ ok_calls = 0
    /\ sentinels_put = 0
    /\ consumed = [w \in WorkerIds |-> 0]
    /\ iter = [w \in WorkerIds |-> 0]
    /\ incr_target = 0
    /\ poison = 0
    /\ nodata = 0
    /\ engine = [w \in WorkerIds |-> None]
    /\ wsess = [w \in WorkerIds |-> None]
    /\ released = [w \in WorkerIds |-> <<>>]
    /\ acked = [w \in WorkerIds |-> 0]
    /\ calls = 1
    /\ base_total = 0
    /\ base_workers = 0
    /\ base_sentinels = 0
    /\ rows = [j \in JobIds |-> 0]
    /\ wtx = [w \in WorkerIds |-> None]
    /\ page_size \in PageSizes
    /\ payload \in Payloads
    /\ segs = [n \in ShmNames |-> NoSeg]
    /\ orphans = {}
    /\ ppc = "idle"
    /\ pseg = 0
    /\ pres = "none"
    /\ rpc = [r \in ReaderIds |-> "idle"]
    /\ rname = [r \in ReaderIds |-> 0]
    /\ rafter = [r \in ReaderIds |-> FALSE]
    /\ rres = [r \in ReaderIds |-> NoResult]

NextShm == PublisherStep \/ \E r \in ReaderIds : Reader(r)

SpecShm == InitShm /\ [][NextShm]_vars

\* ------------------------------------------------------------- claims
Processing == {"process", "except", "acquire", "read", "write"}
Crashed == {w \in Started : wpc[w] = "crashed"}

\* C1: whenever run() has returned after create_jobs enumerated k >= 1 jobs,
\* the progress counter equals k (= total_jobs) and every worker the run
\* started has ended, each of them joined.
RunCompletes ==
    (mpc = "returned" /\ stations >= 1) =>
        /\ progress_counter = stations
        /\ progress_counter = total_jobs
        /\ Len(workers) = num_workers
        /\ mi = Len(workers)
        /\ \A w \in Started : wpc[w] \in Terminated

RunCompletesWitness ==
    /\ mpc = "returned"
    /\ stations = 2
    /\ num_workers = 2
    /\ progress_counter = 2
    /\ \E j \in JobIds : failed[j] >= 1
    /\ \A w \in Started : wpc[w] = "exited"

\* C3: with zero jobs enumerated, run() returns with no worker started, no
\* sentinel enqueued, the queue still empty and the counter still 0 (and it
\* never leaves the create_jobs / zero test / returned positions).
ZeroJobsReturn ==
    stations = 0 =>
        /\ mpc \in {"create_jobs", "check", "returned"}
        /\ workers = <<>>
        /\ \A w \in WorkerIds : wpc[w] = "unstarted"
        /\ sentinels_put = 0
        /\ job_queue = <<>>
        /\ progress_counter = 0

ZeroJobsReturnWitness == mpc = "returned" /\ stations = 0 /\ total_jobs = 0

\* C4: a job whose handler failed n times and then succeeded was delivered
\* exactly n+1 times and was counted exactly once; until then it was delivered
\* at most n+1 times and counted at most once; when run() has returned the
\* counter is the sum of those single contributions.
AtLeastOnceExactlyCounted ==
    /\ \A j \in 1..stations :
        /\ counted[j] <= 1
        /\ delivered[j] <= failed[j] + 1
        /\ counted[j] = 1 => delivered[j] = failed[j] + 1
        /\ mpc = "returned" => counted[j] = 1
    /\ mpc = "returned" => progress_counter = SumTo(counted, stations)

AtLeastOnceWitness ==
    /\ mpc = "returned"
    /\ stations = 1
    /\ num_workers = 1
    /\ failed[1] = 2
    /\ delivered[1] = 3
    /\ counted[1] = 1
    /\ progress_counter = 1

SentinelsAfterAllJobs ==
    (CountIn(job_queue, None) > 0 \/ \E w \in WorkerIds : consumed[w] > 0) =>
        /\ progress_counter = total_jobs
        /\ \A i \in 1..Len(job_queue) : job_queue[i] = None
        /\ \A w \in WorkerIds : wpc[w] \notin Processing

SentinelsAfterAllJobsWitness ==
    /\ CountIn(job_queue, None) > 0
    /\ \E w \in WorkerIds : consumed[w] > 0
    /\ \E j \in JobIds : failed[j] >= 1
    /\ total_jobs = 2

\* C2: under fair scheduling of the manager and of every worker, if no
\* worker's get_engine() ever raises (and the handlers stop failing after at
\* most MaxFails failures), run() eventually returns.
RunTerminates ==
    [](\A w \in WorkerIds : wpc[w] # "crashed") => <>(mpc = "returned")

RunTerminatesWitness ==
    /\ mpc = "returned"
    /\ stations = 2
    /\ num_workers = 2
    /\ sentinels_put = 2
    /\ \A w \in Started : wpc[w] = "exited"
    /\ \A j \in JobIds : failed[j] >= 1

\* C7: once a worker has consumed a sentinel it takes no get() step and no
\* process_job step, it only moves on through task_done and dispose to the
\* exited position, which it never leaves, and it consumes nothing more.
NoWorkAfterSentinel ==
    [][\A w \in WorkerIds :
        consumed[w] >= 1 =>
            /\ ~Get(w)
            /\ ~ProcessJobOk(w)
            /\ ~ProcessJobRaise(w)
            /\ wpc'[w] \in AfterSentinel
            /\ wpc[w] = "exited" => wpc'[w] = "exited"
            /\ wjob'[w] = None
            /\ consumed'[w] = consumed[w]]_vars

NoWorkAfterSentinelWitness ==
    \E w \in WorkerIds :
        /\ wpc[w] = "exited"
        /\ consumed[w] = 1
        /\ job_queue # <<>>

\* C8: the step in which process_job raises changes neither the queue, the
\* counter nor the manager, and leaves the worker in its except block; the
\* step that leaves the except block appends that same job to the queue,
\* changes neither the counter nor the manager, and takes the worker back to
\* get(), not to an end.
RequeueOnFailure ==
    [][\A w \in WorkerIds :
        /\ (wpc[w] = "process" /\ failed'[wjob[w]] # failed[wjob[w]]) =>
            /\ wpc'[w] = "except"
            /\ wjob'[w] = wjob[w]
            /\ UNCHANGED <<job_queue, progress_counter, mgrVars>>
        /\ (wpc[w] = "except" /\ wpc'[w] # "except") =>
            /\ wjob[w] \in JobIds
            /\ job_queue' = Append(job_queue, wjob[w])
            /\ wpc'[w] = "get"
            /\ UNCHANGED <<progress_counter, mgrVars>>]_vars

RequeueOnFailureWitness ==
    \E w \in WorkerIds, j \in JobIds :
        /\ wpc[w] = "get"
        /\ failed[j] = 1
        /\ delivered[j] = 1
        /\ job_queue # <<>>
        /\ job_queue[Len(job_queue)] = j
        /\ progress_counter = 0

\* C9: the counter starts at 0; every step leaves it unchanged or raises it
\* by exactly 1, and the raising step is a worker's write-back for a
\* process_job call that returned and was not yet counted; no manager step
\* writes it; it never exceeds total_jobs nor the number of successful calls.
CounterCountsSuccesses ==
    /\ progress_counter = 0
    /\ [][\/ progress_counter' = progress_counter
          \/ /\ progress_counter' = progress_counter + 1
             /\ progress_counter < ok_calls
             /\ ok_calls' = ok_calls
             /\ ~Manager
             /\ \E w \in WorkerIds : wpc[w] = "write" /\ wpc'[w] = "get"]_vars
    /\ [][Manager => progress_counter' = progress_counter]_vars
    /\ [](progress_counter <= total_jobs /\ progress_counter <= ok_calls)

CounterCountsSuccessesWitness ==
    /\ progress_counter = 2
    /\ ok_calls = 2
    /\ total_jobs = 2
    /\ mpc = "bar"

\* C10: when each of the N workers has completed M locked read-modify-write
\* increments, the counter is exactly N*M; before that it is the number of
\* increments completed so far.
NoLostUpdate ==
    /\ (\A w \in Started : iter[w] = incr_target /\ wpc[w] = "get") =>
            progress_counter = num_workers * incr_target
    /\ progress_counter =
            SumTo(iter, MaxWorkers)
              - Cardinality({w \in Started : wpc[w] \in {"acquire", "read", "write"}})

NoLostUpdateWitness ==
    /\ num_workers = 2
    /\ incr_target = 2
    /\ \A w \in Started : iter[w] = 2 /\ wpc[w] = "get"
    /\ progress_counter = 4

ExclusiveEngines ==
    \A w \in WorkerIds :
        /\ wpc[w] \in {"unstarted", "start"} => engine[w] = None
        /\ engine[w] # None =>
            /\ engine[w] # ManagerEngine
            /\ \A v \in WorkerIds : v # w => engine[v] # engine[w]
        /\ wpc[w] = "process" => wsess[w] = engine[w] /\ engine[w] # None
        /\ wsess[w] # None => wsess[w] # ManagerEngine
        /\ \A i \in 1..Len(released[w]) :
            released[w][i] = engine[w] /\ released[w][i] # ManagerEngine

ExclusiveEnginesWitness ==
    /\ num_workers = 2
    /\ engine[1] # None
    /\ engine[2] # None
    /\ \E w \in WorkerIds : wpc[w] = "exited" /\ released[w] # <<>>
    /\ \E w \in WorkerIds : wpc[w] \in {"task_done", "dispose"}

\* C13 as stated: no worker has ended while the engine it acquired is still
\* not disposed of.
HandleAlwaysReleased ==
    \A w \in WorkerIds :
        (wpc[w] \in Terminated /\ engine[w] # None) => released[w] = <<engine[w]>>

StartFailureAborts ==
    /\ []((\E w \in Started : wpc[w] = "unstarted") =>
            /\ mpc = "raised"
            /\ sentinels_put = 0
            /\ bar_current = 0
            /\ CountIn(job_queue, None) = 0)
    /\ [](mpc \in {"wait", "bar", "bar_final", "put_sentinels", "join"} =>
            /\ Len(workers) = num_workers
            /\ \A w \in Started : wpc[w] # "unstarted")
    /\ [][mpc = "raised" => mpc' = "raised"]_vars

StartFailureAbortsWitness ==
    /\ mpc = "raised"
    /\ num_workers = 2
    /\ workers = <<1, 2>>
    /\ wpc[1] # "unstarted"
    /\ wpc[2] = "unstarted"

\* C18: a fetch that begins after serialize_to_shared_memory(p, n) returned,
\* on a name n that was not live before, loads a value equal to p; every
\* reader that fetches the segment while it lives gets that same value,
\* whatever the platform's rounding of the segment size.
RoundTrip ==
    \A r \in ReaderIds :
        (rpc[r] = "loaded" /\ rafter[r])
            => rres[r] = [st |-> "ok", val |-> payload]

RoundTripWitness ==
    /\ page_size > 1
    /\ \E n \in ShmNames :
        /\ segs[n].live
        /\ payload # <<>>
        /\ \A r \in ReaderIds :
            /\ rpc[r] = "loaded"
            /\ rafter[r]
            /\ r \in segs[n].att
            /\ rres[r] = [st |-> "ok", val |-> payload]

\* C19: a call of deserialize_from_shared_memory on a name with no live
\* segment (never created, or destroyed by its owner) ends at once with
\* FileNotFoundError, returns no payload, and leaves every segment as it was.
FetchMissingFails ==
    [][\A r \in ReaderIds :
          ( /\ rpc[r] = "idle"
            /\ \/ rpc'[r] # rpc[r]
               \/ rres'[r] # rres[r]
               \/ rname'[r] # rname[r]
            /\ ~segs[rname'[r]].live )
          => /\ rpc'[r] = "idle"
             /\ rres'[r] = [st |-> "FileNotFoundError", val |-> <<>>]
             /\ segs' = segs
             /\ orphans' = orphans]_vars

FetchMissingFailsWitness ==
    \E r1, r2 \in ReaderIds :
        /\ rpc[r1] = "idle" /\ rres[r1].st = "FileNotFoundError"
        /\ segs[rname[r1]].gone
        /\ rpc[r2] = "idle" /\ rres[r2].st = "FileNotFoundError"
        /\ rname[r2] \notin PublishNames
        /\ segs[rname[r2]] = NoSeg

\* C20: a reader is attached to a segment exactly while its call of
\* deserialize_from_shared_memory is between the attach and the close, so the
\* attachment is released when pickle.loads raised as well as when it
\* returned; and no step of a reader changes whether a name's segment exists,
\* its bytes, the bytes another reader has mapped, or another process's
\* attachment.
FetchOnlyDetaches ==
    /\ [](\A r \in ReaderIds :
            (rpc[r] # "idle") <=>
                \/ \E n \in ShmNames : r \in segs[n].att
                \/ \E o \in orphans : r \in o.att)
    /\ [][(rpc' # rpc \/ rres' # rres)
            => /\ \A n \in ShmNames :
                    /\ segs'[n].live = segs[n].live
                    /\ segs'[n].buf = segs[n].buf
                    /\ segs'[n].att \ ReaderIds = segs[n].att \ ReaderIds
               /\ \A q \in ReaderIds :
                    (rpc'[q] = rpc[q] /\ rpc[q] # "idle")
                        => Mapped(q)'.buf = Mapped(q).buf]_vars

FetchOnlyDetachesWitness ==
    \E r1, r2 \in ReaderIds, n \in ShmNames :
        /\ rpc[r1] = "idle" /\ rres[r1].st = "UnpicklingError"
        /\ rpc[r2] = "idle" /\ rres[r2].st = "ok"
        /\ segs[n].live
        /\ segs[n].buf = Dumps(payload) \o
                            Zeros(Len(segs[n].buf) - Len(Dumps(payload)))
        /\ segs[n].att = {Publisher}
        /\ orphans = {}

\* C21: a call of serialize_to_shared_memory on a name that has a live
\* segment ends at once with FileExistsError and leaves that segment (its
\* bytes, size and attachments) and every other segment as they were; the
\* publisher does not go on to the copy.
CreateOnLiveFails ==
    [][\A n \in PublishNames :
          ( /\ ppc = "idle"
            /\ segs[n].live
            /\ pres' # pres \/ ppc' # ppc
            /\ ~(ppc' = "created" /\ pseg' # n) )
          => /\ ppc' = "idle"
             /\ pres' = "FileExistsError"
             /\ segs' = segs
             /\ orphans' = orphans]_vars

CreateOnLiveFailsWitness ==
    \E n \in PublishNames, r \in ReaderIds :
        /\ pres = "FileExistsError"
        /\ ppc = "idle"
        /\ segs[n].live
        /\ segs[n].buf = Dumps(payload) \o
                            Zeros(Len(segs[n].buf) - Len(Dumps(payload)))
        /\ segs[n].att = {Publisher, r}

\* C22: a manager constructed without num_workers has a worker count of at
\* least 1, so once run() is past start_workers with at least one job it has
\* started at least one worker.
DefaultUsesCpuCount ==
    /\ num_workers >= 1
    /\ (total_jobs >= 1 /\ mpc \in {"wait", "bar", "bar_final", "put_sentinels",
                                     "join", "returned"})
          => Len(workers) >= 1

\* C23: while create_jobs runs, total_jobs is the number of ids put so far
\* and no worker exists; once it has returned, total_jobs is the number of
\* ids it put, workers exist only after that, and the jobs that are queued,
\* held or counted are exactly the first total_jobs ids, each once, so the
\* counter can reach total_jobs and cannot pass it.
TotalIsJobsPut ==
    /\ mpc = "create_jobs"
          => /\ total_jobs = mi
             /\ job_queue = [i \in 1..mi |-> i]
             /\ workers = <<>>
    /\ mpc = "check" => workers = <<>> /\ Len(job_queue) = total_jobs
    /\ mpc # "create_jobs"
          => /\ total_jobs = stations
             /\ \A j \in JobIds :
                   (j <= total_jobs) <=>
                      (CountIn(job_queue, j)
                         + Cardinality({w \in WorkerIds : wjob[w] = j})
                         + counted[j] = 1)
    /\ progress_counter <= total_jobs

TotalIsJobsPutWitness ==
    /\ mpc = "returned"
    /\ total_jobs = MaxJobs
    /\ progress_counter = total_jobs
    /\ \E j \in JobIds : failed[j] > 0

\* C24: the bar position never goes down, never exceeds the counter or
\* total_jobs; a step of the loop body moves it to the counter value read in
\* that step; the step after the loop moves it to total_jobs, where it stays.
BarFollowsCounter ==
    /\ [](bar_current <= progress_counter /\ bar_current <= total_jobs)
    /\ [](mpc \in {"put_sentinels", "join", "returned"}
             => bar_current = total_jobs)
    /\ [][/\ bar_current' >= bar_current
          /\ (mpc = "bar" /\ mpc' # mpc)
                => /\ bar_current' = progress_counter
                   /\ bar_current' - bar_current >= 0
          /\ (mpc = "bar_final" /\ mpc' # mpc)
                => /\ bar_current' = total_jobs
                   /\ bar_current' - bar_current >= 0]_vars

BarFollowsCounterWitness ==
    /\ mpc = "bar_final"
    /\ 0 < bar_current
    /\ bar_current < total_jobs
    /\ progress_counter = total_jobs

\* C25: an attempt of process_job that raises leaves the committed rows as
\* they were and nothing pending in the worker's Session; so at every moment
\* a station's rows have been inserted once if it has rows and one of its
\* attempts has returned, and not at all otherwise, however often its job
\* failed before.
Succeeded(j) ==
    \/ counted[j] = 1
    \/ \E w \in WorkerIds : wjob[w] = j /\ wpc[w] \in {"acquire", "read", "write"}

RetrySafe ==
    /\ [](\A j \in JobIds :
             rows[j] = IF HasData(j) /\ Succeeded(j) THEN 1 ELSE 0)
    /\ [][\A w \in WorkerIds :
             (wpc'[w] = "except" /\ wpc[w] # "except")
                => rows' = rows /\ wtx'[w] = None]_vars

RetrySafeWitness ==
    /\ mpc = "returned"
    /\ \E j \in JobIds :
        /\ failed[j] >= 2
        /\ HasData(j)
        /\ counted[j] = 1
        /\ rows[j] = 1

\* C26: in every call of run(), the first or a later one on the same
\* manager, a create_jobs that put no job makes the call return with no
\* worker started and no sentinel put by it.
ZeroJobsEveryCall ==
    (stations = 0 /\ mpc \notin {"create_jobs", "check"})
        => /\ mpc = "returned"
           /\ Len(workers) = base_workers
           /\ sentinels_put = base_sentinels

\* (The other half of C26, which the code keeps: a later call that put
\* j >= 1 jobs is past its progress loop only when j more jobs are counted.)
RerunWaitsForNewJobs ==
    (calls > 1 /\ mpc \in {"put_sentinels", "join", "returned"})
        => /\ total_jobs = base_total + stations
           /\ progress_counter = total_jobs
           /\ \A j \in 1..stations : counted[j] = 1

====
